---- MODULE Spec2Model ----
(***************************************************************************)
(* Stratified batch sampling (bolts/conduit data layer) and the MoCo-v2    *)
(* momentum memory bank, as state machines.                                *)
(*                                                                         *)
(* Sample indices and cursors are 0-based, as in the Python source.        *)
(***************************************************************************)
EXTENDS Integers, Sequences, FiniteSets, TLC

VARIABLES
    group_ids,            \* get_group_ids(train_data): one group id per sample
    training_mode,        \* CdtDataModule.training_mode
    stratified_sampling,  \* CdtDataModule.stratified_sampling
    sampler,              \* the batch-sampler instances, by instance number
    emb_dim,              \* MoCoV2.emb_dim
    num_negatives,        \* MoCoV2.num_negatives
    use_ddp,              \* MoCoV2.use_ddp
    memory,               \* MoCoV2.mb.memory: row r of the bank, r in 0..capacity-1
    ptr,                  \* MoCoV2.mb: the write cursor
    negatives,            \* what the last read of the bank returned
    lastOp,               \* the last operation on the bank, with the cursor before it
    pushed,               \* the batches pushed since construction, while of one size
    replicas,             \* under DDP: the banks of the workers of rank 2 and up
    datamodule,           \* CdtDataModule: train_batch_size, _train_data, the last call
    labelled,             \* a dataset and what the last label extraction made of it
    laftr,                \* LAFTR: disc_steps, the nets' requires_grad, the training run
    loss                  \* CrossEntropy: reduction, and the last call of forward

samplerVars == <<group_ids, training_mode, stratified_sampling, sampler>>

bankVars ==
    <<emb_dim, num_negatives, use_ddp, memory, ptr, negatives, lastOp, pushed, replicas>>

restVars == <<datamodule, labelled, laftr, loss>>

vars == <<samplerVars, bankVars, restVars>>

\* no call made yet
NoCall == [op |-> "none"]

\* LAFTR after construction with disc_steps: every parameter requires a gradient
NewLAFTR(disc_steps) ==
    [disc_steps |-> disc_steps,
     requires_grad |-> [net \in {"enc", "dec", "clf", "adv"} |-> TRUE],
     batch_idx |-> 0, optimizer_idx |-> 0, st |-> "training_step",
     steps |-> <<>>, ret |-> NoCall]

\* self._train_data and the other dataset attributes before setup: None
NoData == [is_none |-> TRUE, role |-> "", len |-> 0, gen |-> 0, weighted |-> FALSE]

\* CdtDataModule after construction
NewDataModule(train_batch_size, instance_weighting) ==
    [train_batch_size |-> train_batch_size, instance_weighting |-> instance_weighting,
     train_data |-> NoData, val_data |-> NoData, test_data |-> NoData,
     train_data_base |-> NoData, val_data_base |-> NoData, test_data_base |-> NoData,
     num_splits |-> 0, ret |-> NoCall]

\* a value of Union[ReductionType, str]: a member of the Enum, or a str
ReductionNames == {"mean", "none", "sum"}

Member(n) == [kind |-> "enum", name |-> n]

ReductionType == {Member(n) : n \in ReductionNames}

Str(s) == [kind |-> "str", name |-> s]

\* kit's str_to_enum(str_=..., enum=ReductionType): the member of that name
str_to_enum(str_) == Member(str_.name)

\* CrossEntropy(reduction=...) after construction
NewCrossEntropy(reduction) ==
    [reduction |-> IF reduction.kind = "str" THEN str_to_enum(reduction) ELSE reduction,
     ret |-> NoCall]

\* the components a specification leaves alone
RestIdle ==
    /\ datamodule = NewDataModule(1, FALSE)
    /\ labelled = [dataset |-> <<>>, ret |-> NoCall]
    /\ laftr = NewLAFTR(1)
    /\ loss = NewCrossEntropy(Member("mean"))

(***************************************************************************)
(* Bounds of the model.                                                    *)
(***************************************************************************)
MaxSamples == 3
MaxNspg == 2
MaxBatchSize == 4
MaxBatches == 4
MaxCapacity == 4
MaxLocalBatch == 2
MaxLabels == 2        \* samples of a labelled base dataset
MaxDiscSteps == 3     \* LAFTR.disc_steps
MaxRunBatches == 6    \* batches of a LAFTR training run
MaxSetups == 2        \* computations of the splits by one data module

GroupIdValues == {0, 1, 2}
MultiplierValues == {1, 2}
Instances == {1, 2}

(***************************************************************************)
(* Sequence helpers.                                                       *)
(***************************************************************************)
Range(s) == {s[k] : k \in DOMAIN s}

SetMin(S) == CHOOSE x \in S : \A y \in S : x <= y

SetMax(S) == CHOOSE x \in S : \A y \in S : y <= x

RECURSIVE SortedSeq(_)
SortedSeq(S) ==
    IF S = {} THEN <<>>
    ELSE <<SetMin(S)>> \o SortedSeq(S \ {SetMin(S)})

SeqsUpTo(S, n) == UNION {[1..k -> S] : k \in 1..n}

\* All reorderings of the sequence s (torch.randperm over its positions).
Perms(s) == {[k \in 1..Len(s) |-> s[p[k]]] : p \in Permutations(1..Len(s))}

Count(s, x) == Cardinality({k \in DOMAIN s : s[k] = x})

\* math.ceil(a / b) for a >= 0, b > 0
CeilDiv(a, b) == (a + b - 1) \div b

(***************************************************************************)
(* The group index table.                                                  *)
(***************************************************************************)
\* group_ids.unique(): the distinct ids observed
Groups == Range(group_ids)

\* the sample indices of group g, ascending
GroupIdxs(g) == SortedSeq({k - 1 : k \in {j \in DOMAIN group_ids : group_ids[j] = g}})

GroupSize(g) == Len(GroupIdxs(g))

\* len(group_ids.unique())
num_groups == Cardinality(Groups)

\* multipliers: a map from every observed group to its multiplier (absent keys are 1)
MultiplierMaps == [Groups -> MultiplierValues]

DefaultMultipliers == [g \in Groups |-> 1]

\* what a completed pass over the list idxs emitted: how often each entry of
\* the list, and how many entries in all
PassOf(idxs, emitted) ==
    [count |-> [x \in Range(idxs) |-> Count(emitted, x)], len |-> Len(emitted)]

NoPass(g) == PassOf(GroupIdxs(g), <<>>)

(***************************************************************************)
(* Sampler instances.                                                      *)
(***************************************************************************)
NoSampler ==
    [st |-> "none", kind |-> "none", error |-> "",
     num_samples_per_group |-> 0, shuffle |-> FALSE,
     multipliers |-> DefaultMultipliers, mode |-> "epoch", epoch_len |-> 0,
     order |-> [g \in Groups |-> <<>>], cursor |-> [g \in Groups |-> 0],
     emitted |-> [g \in Groups |-> <<>>], lastPass |-> [g \in Groups |-> NoPass(g)],
     wraps |-> [g \in Groups |-> 0],
     yielded |-> 0, batch |-> <<>>,
     args |-> [n |-> 0, shuffle |-> FALSE, multipliers |-> DefaultMultipliers]]

\* number of indices of group g per batch
Quota(s, g) == s.num_samples_per_group * s.multipliers[g]

\* StratifiedSampler.__init__ / StratifiedBatchSampler.__init__: the checks
ConstructionError(nspg) ==
    IF nspg <= 0 \/ \E g \in Groups : GroupSize(g) = 0
    THEN "ConfigurationError"
    ELSE ""

\* epoch-mode length of the sampler
EpochLength(nspg, mult) ==
    SetMax({CeilDiv(GroupSize(g), mult[g] * nspg) : g \in Groups})

\* the length taken as the minimum over the groups
min_epoch_len(nspg, mult) ==
    SetMin({CeilDiv(GroupSize(g), mult[g] * nspg) : g \in Groups})

\* SizedStratifiedSampler.__init__: self._max_epoch_len
max_epoch_len(nspg, mult) ==
    SetMax({CeilDiv(GroupSize(g), mult[g] * nspg) : g \in Groups})

\* the quotient rounded up
NumSamplesPerGroupCeil(batch_size) == CeilDiv(batch_size, num_groups)

\* train_dataloader: num_samples_per_group = batch_size // num_groups
NumSamplesPerGroup(batch_size) == batch_size \div num_groups

\* the sampler built in epoch mode whatever the data-module's mode
EpochModeAlways == "epoch"

\* train_dataloader: training_mode=self.training_mode
SamplerMode == training_mode

Constructed(kind, nspg, shuf, mult, mode, len) ==
    [NoSampler EXCEPT !.st = "ready", !.kind = kind,
                      !.num_samples_per_group = nspg, !.shuffle = shuf,
                      !.multipliers = mult, !.mode = mode, !.epoch_len = len]

Failed(kind, nspg, shuf, mult, mode, err) ==
    [NoSampler EXCEPT !.st = "error", !.kind = kind, !.error = err,
                      !.num_samples_per_group = nspg, !.shuffle = shuf,
                      !.multipliers = mult, !.mode = mode]

\* the constructor handing shuffle=True to its base class whatever it was given
NewSizedStratifiedSamplerShuffling(nspg, shuf, mult) ==
    IF ConstructionError(nspg) # ""
    THEN Failed("SizedStratifiedSampler", nspg, TRUE, mult, "epoch",
                ConstructionError(nspg))
    ELSE Constructed("SizedStratifiedSampler", nspg, TRUE, mult, "epoch",
                     max_epoch_len(nspg, mult))

\* SizedStratifiedSampler(group_ids, num_samples_per_group, shuffle, multipliers)
NewSizedStratifiedSampler(nspg, shuf, mult) ==
    IF ConstructionError(nspg) # ""
    THEN Failed("SizedStratifiedSampler", nspg, shuf, mult, "epoch",
                ConstructionError(nspg))
    ELSE Constructed("SizedStratifiedSampler", nspg, shuf, mult, "epoch",
                     max_epoch_len(nspg, mult))

\* StratifiedBatchSampler(group_ids, num_samples_per_group, shuffle,
\* training_mode, drop_last); nothing in the design of the sampler depends on
\* drop_last
NewStratifiedBatchSampler(nspg, shuf, mode, dl) ==
    IF ConstructionError(nspg) # ""
    THEN Failed("StratifiedBatchSampler", nspg, shuf, DefaultMultipliers, mode,
                ConstructionError(nspg))
    ELSE Constructed("StratifiedBatchSampler", nspg, shuf, DefaultMultipliers, mode,
                     IF mode = "epoch" THEN EpochLength(nspg, DefaultMultipliers) ELSE 0)

\* the batch sampler given the whole batch size as its number of samples per group
TrainBatchSamplerWholeBatch(shuf, dl, batch_size) ==
    IF stratified_sampling
    THEN NewStratifiedBatchSampler(batch_size, shuf, SamplerMode, dl)
    ELSE [NoSampler EXCEPT !.st = "ready", !.kind = "SequentialBatchSampler",
                           !.shuffle = shuf, !.mode = SamplerMode]

\* CdtDataModule.train_dataloader(shuffle, drop_last, batch_size): the batch
\* sampler; batch_size is the value line 141 settles on (the argument, or
\* train_batch_size when the argument is omitted)
TrainBatchSampler(shuf, dl, batch_size) ==
    IF stratified_sampling
    THEN NewStratifiedBatchSampler(NumSamplesPerGroup(batch_size), shuf,
                                   SamplerMode, dl)
    ELSE [NoSampler EXCEPT !.st = "ready", !.kind = "SequentialBatchSampler",
                           !.shuffle = shuf, !.mode = SamplerMode]

(***************************************************************************)
(* Iteration: per-group cursors.                                           *)
(***************************************************************************)
\* a pass drawn with replacement from the group's list
PassOrdersWithReplacement(s, g) == [1..GroupSize(g) -> Range(GroupIdxs(g))]

\* the orders a group's list can take at the start of a pass
PassOrders(s, g) == IF s.shuffle THEN Perms(GroupIdxs(g)) ELSE {GroupIdxs(g)}

\* how many times the cursor of a list of n entries wraps when q entries are
\* taken starting with c entries of the pass already consumed
NumWraps(n, c, q) == IF q = 0 THEN 0 ELSE (c + q - 1) \div n

\* a take that ends at the end of the list instead of wrapping
RECURSIVE TakeNoWrap(_, _, _)
TakeNoWrap(c, q, news) ==
    IF q = 0 \/ c.cursor >= Len(c.order) THEN c
    ELSE TakeNoWrap([c EXCEPT !.cursor = @ + 1,
                              !.emitted = Append(@, c.order[c.cursor + 1]),
                              !.out = Append(@, c.order[c.cursor + 1])],
                    q - 1, news)

\* take q entries from a group's cursor c; news holds the orders of the passes
\* that start during the take
RECURSIVE Take(_, _, _)
Take(c, q, news) ==
    IF q = 0 THEN c
    ELSE IF c.cursor < Len(c.order)
         THEN Take([c EXCEPT !.cursor = @ + 1,
                             !.emitted = Append(@, c.order[c.cursor + 1]),
                             !.out = Append(@, c.order[c.cursor + 1])],
                   q - 1, news)
         ELSE Take([c EXCEPT !.order = Head(news), !.cursor = 0,
                             !.lastPass = PassOf(c.idxs, c.emitted), !.emitted = <<>>,
                             !.wraps = @ + 1],
                   q, Tail(news))

GroupCursor(s, g) ==
    [idxs |-> GroupIdxs(g),
     order |-> s.order[g], cursor |-> s.cursor[g], emitted |-> s.emitted[g],
     lastPass |-> s.lastPass[g], wraps |-> s.wraps[g], out |-> <<>>]

\* the slices put together from the last group of the order to the first
RECURSIVE ConcatSlicesDescending(_, _)
ConcatSlicesDescending(taken, gs) ==
    IF gs = <<>> THEN <<>>
    ELSE ConcatSlicesDescending(taken, Tail(gs)) \o taken[Head(gs)].out

\* the groups' slices, concatenated in the order gs of the groups
RECURSIVE ConcatSlices(_, _)
ConcatSlices(taken, gs) ==
    IF gs = <<>> THEN <<>>
    ELSE taken[Head(gs)].out \o ConcatSlices(taken, Tail(gs))

\* the sampler after yielding one batch, the passes started meanwhile given by news
AfterBatch(s, news) ==
    LET taken == [g \in Groups |-> Take(GroupCursor(s, g), Quota(s, g), news[g])]
    IN  [s EXCEPT !.order = [g \in Groups |-> taken[g].order],
                  !.cursor = [g \in Groups |-> taken[g].cursor],
                  !.emitted = [g \in Groups |-> taken[g].emitted],
                  !.lastPass = [g \in Groups |-> taken[g].lastPass],
                  !.wraps = [g \in Groups |-> taken[g].wraps],
                  !.yielded = @ + 1,
                  !.batch = ConcatSlices(taken, SortedSeq(Groups))]

\* the orders of the passes that group g starts during the next batch
GroupPasses(s, g) ==
    [1..NumWraps(GroupSize(g), s.cursor[g], Quota(s, g)) -> PassOrders(s, g)]

\* the choices of pass orders for one batch, one sequence of orders per group
RECURSIVE NewPasses(_, _)
NewPasses(s, gs) ==
    IF gs = <<>> THEN {<<>>}
    ELSE {(Head(gs) :> p) @@ rest :
            p \in GroupPasses(s, Head(gs)), rest \in NewPasses(s, Tail(gs))}

\* the order of every group's first pass
RECURSIVE FirstOrders(_, _)
FirstOrders(s, gs) ==
    IF gs = <<>> THEN {<<>>}
    ELSE {(Head(gs) :> p) @@ rest :
            p \in PassOrders(s, Head(gs)), rest \in FirstOrders(s, Tail(gs))}

NewPassesFirst(s) == FirstOrders(s, SortedSeq(Groups))

(***************************************************************************)
(* The memory bank of MoCo-v2.  A row is a vector of emb_dim integers; the *)
(* unit vectors of the model are the signed axis vectors.                  *)
(***************************************************************************)
EmbDims == {1}
WorldSizes == {2}
Magnitudes == {0, 2}

Abs(x) == IF x < 0 THEN -x ELSE x

\* the signed axis vectors of dimension d
UnitVecs(d) ==
    {[k \in 1..d |-> IF k = a THEN sgn ELSE 0] : a \in 1..d, sgn \in {-1, 1}}

\* what the teacher can put out for one image: a multiple of an axis vector,
\* the zero vector included
RawVecs(d) ==
    {[k \in 1..d |-> IF k = a THEN m ELSE 0] : a \in 1..d, m \in Magnitudes}

RECURSIVE SumAbs(_)
SumAbs(v) == IF v = <<>> THEN 0 ELSE Abs(Head(v)) + SumAbs(Tail(v))

\* the row passed on as it is
NormalizeIdentity(v) == v

\* F.normalize(x, dim=1) on one row: x / max(||x||, eps). The L2 norm of an
\* axis vector is the sum of the magnitudes of its entries; the norm of the
\* zero row is clamped to eps, which leaves the row zero.
Normalize(v) ==
    IF SumAbs(v) = 0 THEN v
    ELSE [k \in DOMAIN v |-> v[k] \div SumAbs(v)]

NormalizeRows(x) == [k \in DOMAIN x |-> Normalize(x[k])]

RECURSIVE ConcatAll(_)
ConcatAll(xs) == IF xs = <<>> THEN <<>> ELSE Head(xs) \o ConcatAll(Tail(xs))

\* concat_all_gather(keys): the keys of every worker, concatenated by rank
concat_all_gather(all_keys) == ConcatAll(all_keys)

\* MemoryBank(dim, capacity): the rows a new bank can hold (drawn at random,
\* then normalized)
NewMemories(dim, capacity) == [0..(capacity - 1) -> UnitVecs(dim)]

Capacity(mem) == Cardinality(DOMAIN mem)

Min(a, b) == IF a < b THEN a ELSE b

\* a write of keys that stops at the end of the buffer instead of wrapping
PushNoWrap(mem, p, keys) ==
    [memory |-> [r \in DOMAIN mem |->
                    IF p <= r /\ r < p + Len(keys) THEN keys[r - p + 1] ELSE mem[r]],
     ptr |-> (p + Len(keys)) % Capacity(mem)]

\* a push that advances the cursor without taking it modulo the capacity
PushNoModulo(mem, p, keys) ==
    LET B == Len(keys)
        tail == Min(B, Capacity(mem) - p)
    IN  [memory |-> [r \in DOMAIN mem |->
                        IF p <= r /\ r < p + tail THEN keys[r - p + 1]
                        ELSE IF r < B - tail THEN keys[tail + r + 1]
                        ELSE mem[r]],
         ptr |-> p + B]

\* MemoryBank.push(keys): the bank after the write at cursor p. The rows go to
\* the tail segment [p, p + tail) and, if the write straddles the end of the
\* buffer, the rest to the head segment [0, B - tail).
Push(mem, p, keys) ==
    LET B == Len(keys)
        tail == Min(B, Capacity(mem) - p)
    IN  [memory |-> [r \in DOMAIN mem |->
                        IF p <= r /\ r < p + tail THEN keys[r - p + 1]
                        ELSE IF r < B - tail THEN keys[tail + r + 1]
                        ELSE mem[r]],
         ptr |-> (p + B) % Capacity(mem)]

\* the bank after the keys are enqueued twice
DequeueAndEnqueueTwice(mem, p, ddp, all_keys, rank) ==
    LET keys == IF ddp THEN concat_all_gather(all_keys) ELSE all_keys[rank]
        once == Push(mem, p, keys)
    IN  Push(once.memory, once.ptr, keys)

\* the keys of this worker alone enqueued, not gathered
DequeueAndEnqueueLocal(mem, p, ddp, all_keys, rank) == Push(mem, p, all_keys[rank])

\* MoCoV2._dequeue_and_enqueue(keys) on the worker of the given rank (ranks
\* count from 1 here); all_keys[w] are the keys of worker w
DequeueAndEnqueue(mem, p, ddp, all_keys, rank) ==
    LET keys == IF ddp THEN concat_all_gather(all_keys) ELSE all_keys[rank]
    IN  Push(mem, p, keys)

\* the bank built with dim and capacity exchanged
SwappedBank(dim, negs) == NewMemories(negs, dim)

\* MoCoV2.__init__: self.mb = MemoryBank(dim=emb_dim, capacity=num_negatives)
NewBank(dim, negs) == NewMemories(dim, negs)

\* the number of workers
WorldSize(ddp) == IF ddp THEN SetMax(WorldSizes) ELSE 1

\* the batch the step is to enqueue: the keys of all workers under DDP
GlobalKeys(ddp, all_keys) == IF ddp THEN ConcatAll(all_keys) ELSE all_keys[1]

\* the record of the pushes since construction: the rows in the order pushed,
\* kept while every push had the same size B and the buffer was not yet filled;
\* all_B is the size of every push so far (0 before the first, -1 once two
\* pushes differed in size)
NotePush(h, keys, capacity) ==
    LET all_B == IF h.all_B \in {0, Len(keys)} THEN Len(keys) ELSE -1
    IN  IF h.live /\ h.B \in {0, Len(keys)} /\ Len(h.rows) + Len(keys) <= capacity
        THEN [live |-> TRUE, B |-> Len(keys), rows |-> h.rows \o keys, all_B |-> all_B]
        ELSE [live |-> FALSE, B |-> 0, rows |-> <<>>, all_B |-> all_B]

\* positions of a gathered batch count from 1 here
Identity(N) == [k \in 1..N |-> k]

\* torch.randperm(batch_size_all): the orders the model draws from
ShufflePerms(N) ==
    {Identity(N), [k \in 1..N |-> N + 1 - k], [k \in 1..N |-> (k % N) + 1]}

\* torch.argsort(idx_shuffle)
Argsort(idx) == [i \in DOMAIN idx |-> CHOOSE k \in DOMAIN idx : idx[k] = i]

\* idx.view(num_gpus, -1)[gpu_idx]: the rows of the given rank
ViewRow(idx, num_gpus, rank) ==
    LET n == Len(idx) \div num_gpus
    IN  [j \in 1..n |-> idx[(rank - 1) * n + j]]

\* x[idx]
IndexBy(x, idx) == [j \in DOMAIN idx |-> x[idx[j]]]

\* MoCoV2._batch_shuffle_ddp(x) on the given rank, all_x[w] being the x of
\* worker w and idx_shuffle the order broadcast by the first worker
batch_shuffle_ddp(all_x, idx_shuffle, rank) ==
    LET batch_size_this == Len(all_x[rank])
        x_gather == concat_all_gather(all_x)
        num_gpus == Len(x_gather) \div batch_size_this
    IN  [x |-> IndexBy(x_gather, ViewRow(idx_shuffle, num_gpus, rank)),
         idx_unshuffle |-> Argsort(idx_shuffle)]

\* the slice of the first worker restored on every worker
batch_unshuffle_ddp_first(all_x, idx_unshuffle, rank) ==
    LET batch_size_this == Len(all_x[rank])
        x_gather == concat_all_gather(all_x)
        num_gpus == Len(x_gather) \div batch_size_this
    IN  IndexBy(x_gather, ViewRow(idx_unshuffle, num_gpus, 1))

\* MoCoV2._batch_unshuffle_ddp(x, idx_unshuffle) on the given rank
batch_unshuffle_ddp(all_x, idx_unshuffle, rank) ==
    LET batch_size_this == Len(all_x[rank])
        x_gather == concat_all_gather(all_x)
        num_gpus == Len(x_gather) \div batch_size_this
    IN  IndexBy(x_gather, ViewRow(idx_unshuffle, num_gpus, rank))

\* the key images of the workers: image <<w, j>> is the j-th of worker w
KeyImages(W, n) == [w \in 1..W |-> [j \in 1..n |-> <<w, j>>]]

\* self.teacher(img_k), raw[w][j] being what the teacher makes of image <<w, j>>
Teacher(raw, img_k) == [j \in DOMAIN img_k |-> raw[img_k[j][1]][img_k[j][2]]]

\* MoCoV2._get_loss, the key features: teacher_out of every worker, after the
\* batch shuffle, the teacher, the normalization and the unshuffle
TeacherOut(ddp, raw, idx_shuffle) ==
    LET img_k == KeyImages(Len(raw), Len(raw[1]))
        shuffled == [w \in DOMAIN raw |->
                        IF ddp THEN batch_shuffle_ddp(img_k, idx_shuffle, w)
                        ELSE [x |-> img_k[w], idx_unshuffle |-> <<>>]]
        out == [w \in DOMAIN raw |-> NormalizeRows(Teacher(raw, shuffled[w].x))]
    IN  [w \in DOMAIN raw |->
            IF ddp THEN batch_unshuffle_ddp(out, shuffled[w].idx_unshuffle, w)
            ELSE out[w]]

\* the keys enqueued before the negatives are read
GetLossEnqueueFirst(mem, p, ddp, teacher_out, rank) ==
    LET after == DequeueAndEnqueue(mem, p, ddp, teacher_out, rank)
    IN  [negatives |-> after.memory, memory |-> after.memory, ptr |-> after.ptr]

\* MoCoV2._get_loss, from the logits on: the negatives are a clone of the
\* bank, then the keys of the step are enqueued
GetLoss(mem, p, ddp, teacher_out, rank) ==
    LET after == DequeueAndEnqueue(mem, p, ddp, teacher_out, rank)
    IN  [negatives |-> mem, memory |-> after.memory, ptr |-> after.ptr]

NoOp == [op |-> "init", keys |-> <<>>, ptr |-> 0, raw |-> <<>>, mem |-> <<>>]

BankIdle ==
    /\ emb_dim = 1
    /\ num_negatives = 1
    /\ use_ddp = FALSE
    /\ memory = [r \in {0} |-> <<1>>]
    /\ ptr = 0
    /\ negatives = memory
    /\ lastOp = NoOp
    /\ pushed = [live |-> FALSE, B |-> 0, rows |-> <<>>, all_B |-> 0]
    /\ replicas = <<>>

SamplerIdle ==
    /\ group_ids = <<0>>
    /\ training_mode = "epoch"
    /\ stratified_sampling = FALSE
    /\ sampler = [i \in Instances |-> NoSampler]

\* the orders the step can draw: none is drawn in a single process
ShuffleChoices(ddp, N) == IF ddp THEN ShufflePerms(N) ELSE {Identity(N)}

\* MoCoV2.training_step on every worker: _get_loss normalizes the teacher's
\* outputs, reads the negatives from the bank and enqueues the keys
training_step ==
    \E n \in 1..MaxLocalBatch :
        /\ n * WorldSize(use_ddp) <= num_negatives
        /\ \E raw \in [1..WorldSize(use_ddp) -> [1..n -> RawVecs(emb_dim)]],
              idx_shuffle \in ShuffleChoices(use_ddp, n * WorldSize(use_ddp)) :
           \E teacher_out \in {TeacherOut(use_ddp, raw, idx_shuffle)} :
             LET after == GetLoss(memory, ptr, use_ddp, teacher_out, 1)
             IN  /\ negatives' = after.negatives
                 /\ memory' = after.memory
                 /\ ptr' = after.ptr
                 /\ replicas' =
                        [w \in DOMAIN replicas |->
                            LET there == GetLoss(replicas[w].memory, replicas[w].ptr,
                                                 use_ddp, teacher_out, w)
                            IN  [memory |-> there.memory, ptr |-> there.ptr]]
                 /\ lastOp' = [op |-> "training_step",
                               keys |-> GlobalKeys(use_ddp, teacher_out),
                               ptr |-> ptr,
                               raw |-> ConcatAll(raw),
                               mem |-> memory]
                 /\ pushed' = NotePush(pushed, GlobalKeys(use_ddp, teacher_out),
                                       num_negatives)
        /\ UNCHANGED <<emb_dim, num_negatives, use_ddp, samplerVars, restVars>>

\* MemoryBank.read(): a snapshot of the buffer
read ==
    /\ negatives' = memory
    /\ lastOp' = [op |-> "read", keys |-> <<>>, ptr |-> ptr, raw |-> <<>>, mem |-> memory]
    /\ UNCHANGED <<emb_dim, num_negatives, use_ddp, memory, ptr, pushed, replicas,
                   samplerVars, restVars>>

BankInit ==
    /\ SamplerIdle
    /\ RestIdle
    /\ emb_dim \in EmbDims
    /\ num_negatives \in 2..MaxCapacity
    /\ use_ddp \in BOOLEAN
    /\ memory \in NewBank(emb_dim, num_negatives)
    /\ ptr = 0
    /\ negatives = memory
    /\ lastOp = NoOp
    /\ pushed = [live |-> TRUE, B |-> 0, rows |-> <<>>, all_B |-> 0]
    /\ replicas = [w \in 2..WorldSize(use_ddp) |-> [memory |-> memory, ptr |-> ptr]]

BankNext ==
    \/ training_step
    \/ read

BankSpec == BankInit /\ [][BankNext]_vars

(***************************************************************************)
(* Actions of the sampler.                                                 *)
(***************************************************************************)
DataUnchanged ==
    UNCHANGED <<group_ids, training_mode, stratified_sampling, bankVars, restVars>>

\* the sampler s, with the arguments of the call that built it noted: n is
\* num_samples_per_group (SizedStratifiedSampler) or batch_size (train_dataloader)
Called(s, n, shuf, mult) ==
    [s EXCEPT !.args = [n |-> n, shuffle |-> shuf, multipliers |-> mult]]

\* the data-module attributes are at their defaults: the sampler is built
\* directly rather than through a configured data-module
DataModuleDefaults == training_mode = "epoch" /\ ~stratified_sampling

\* SizedStratifiedSampler.__init__
SizedStratifiedSampler_init(i) ==
    /\ sampler[i].st = "none"
    /\ DataModuleDefaults
    /\ \E nspg \in -1..MaxNspg, shuf \in BOOLEAN, mult \in MultiplierMaps :
          sampler' = [sampler EXCEPT ![i] = Called(NewSizedStratifiedSampler(nspg, shuf, mult), nspg, shuf, mult)]
    /\ DataUnchanged

\* CdtDataModule.train_dataloader
train_dataloader(i) ==
    /\ sampler[i].st = "none"
    /\ \E shuf \in BOOLEAN, dl \in BOOLEAN, b \in 1..MaxBatchSize :
          sampler' = [sampler EXCEPT ![i] = Called(TrainBatchSampler(shuf, dl, b), b, shuf, DefaultMultipliers)]
    /\ DataUnchanged

Stratified(s) == s.kind \in {"SizedStratifiedSampler", "StratifiedBatchSampler"}

\* iter(sampler): a fresh pass over every group
Iter(i) ==
    /\ sampler[i].st \in {"ready", "exhausted"}
    /\ Stratified(sampler[i])
    /\ \E first \in NewPassesFirst(sampler[i]) :
          sampler' = [sampler EXCEPT ![i] =
              [sampler[i] EXCEPT !.st = "iterating", !.order = first,
                                 !.cursor = [g \in Groups |-> 0],
                                 !.emitted = [g \in Groups |-> <<>>],
                                 !.lastPass = [g \in Groups |-> NoPass(g)],
                                 !.wraps = [g \in Groups |-> 0],
                                 !.yielded = 0, !.batch = <<>>]]
    /\ DataUnchanged

\* whether the iteration has reached its end
EpochDone(s) == s.mode = "epoch" /\ s.yielded >= s.epoch_len

\* whether next(iterator) yields a batch
Yields(s) == s.st = "iterating" /\ ~EpochDone(s)

\* whether next(iterator) raises StopIteration
Stops(s) == s.st = "iterating" /\ EpochDone(s)

\* next(iterator): one batch
NextBatch(i) ==
    /\ Yields(sampler[i])
    /\ sampler[i].mode = "step" => sampler[i].yielded < MaxBatches
    /\ \E news \in NewPasses(sampler[i], SortedSeq(Groups)) :
          sampler' = [sampler EXCEPT ![i] = AfterBatch(sampler[i], news)]
    /\ DataUnchanged

\* next(iterator) at the end of the epoch: StopIteration
StopIteration(i) ==
    /\ Stops(sampler[i])
    /\ sampler' = [sampler EXCEPT ![i].st = "exhausted"]
    /\ DataUnchanged

GroupIdVectors(n) == SeqsUpTo(GroupIdValues, n)

Init ==
    /\ group_ids \in GroupIdVectors(MaxSamples)
    /\ training_mode \in {"epoch", "step"}
    /\ stratified_sampling \in BOOLEAN
    /\ sampler = [i \in Instances |-> NoSampler]
    /\ BankIdle
    /\ RestIdle

Next ==
    \/ SizedStratifiedSampler_init(1)
    \/ train_dataloader(1)
    \/ Iter(1)
    \/ NextBatch(1)
    \/ StopIteration(1)

Spec == Init /\ [][Next]_vars

(***************************************************************************)
(* Two sampler instances built from identical inputs, unshuffled.          *)
(***************************************************************************)
\* SizedStratifiedSampler(..., shuffle=False, ...) twice, with the same arguments
SizedPair ==
    /\ \A i \in Instances : sampler[i].st = "none"
    /\ DataModuleDefaults
    /\ \E nspg \in -1..MaxNspg, mult \in MultiplierMaps :
          sampler' = [i \in Instances |->
                        Called(NewSizedStratifiedSampler(nspg, FALSE, mult), nspg, FALSE, mult)]
    /\ DataUnchanged

\* train_dataloader(shuffle=False, ...) twice, with the same arguments
DataloaderPair ==
    /\ \A i \in Instances : sampler[i].st = "none"
    /\ \E dl \in BOOLEAN, b \in 1..MaxBatchSize :
          sampler' = [i \in Instances |->
                        Called(TrainBatchSampler(FALSE, dl, b), b, FALSE, DefaultMultipliers)]
    /\ DataUnchanged

PairInit ==
    /\ group_ids \in GroupIdVectors(MaxSamples)
    /\ training_mode \in {"epoch", "step"}
    /\ stratified_sampling \in BOOLEAN
    /\ sampler = [i \in Instances |-> NoSampler]
    /\ BankIdle
    /\ RestIdle

PairNext ==
    \/ SizedPair
    \/ DataloaderPair
    \/ \E i \in Instances : Iter(i)
    \/ \E i \in Instances : NextBatch(i)
    \/ \E i \in Instances : StopIteration(i)

PairSpec == PairInit /\ [][PairNext]_vars


(***************************************************************************)
(* The data module: setup and the number of training batches.              *)
(***************************************************************************)
\* the split of the given role with n samples, from the gen-th call of _get_splits
Dataset(role, n, gen) ==
    [is_none |-> FALSE, role |-> role, len |-> n, gen |-> gen, weighted |-> FALSE]

\* the outcome of a call: the exception raised ("" for none) and the value returned
Raised(op, drop_last, exc) ==
    [op |-> op, drop_last |-> drop_last, raised |-> exc, value |-> -1]

Returned(op, drop_last, value) ==
    [op |-> op, drop_last |-> drop_last, raised |-> "", value |-> value]

\* the number of batches of batch_size in num_samples
num_batches_per_epoch(num_samples, batch_size, drop_last) ==
    IF drop_last THEN num_samples \div batch_size ELSE CeilDiv(num_samples, batch_size)

\* the test of the mode turned round: the error is raised in epoch mode
NumTrainBatchesInverted(mode, train_data, train_batch_size, drop_last) ==
    IF mode = "epoch"
    THEN Raised("num_train_batches", drop_last, "AttributeError")
    ELSE IF train_data.is_none
    THEN Raised("num_train_batches", drop_last, "AttributeError")
    ELSE Returned("num_train_batches", drop_last,
                  num_batches_per_epoch(train_data.len, train_batch_size, drop_last))

NumTrainBatches(mode, train_data, train_batch_size, drop_last) ==
    IF mode = "step"
    THEN Raised("num_train_batches", drop_last, "AttributeError")
    ELSE IF train_data.is_none
    THEN Raised("num_train_batches", drop_last, "AttributeError")
    ELSE Returned("num_train_batches", drop_last,
                  num_batches_per_epoch(train_data.len, train_batch_size, drop_last))

ModuleUnchanged == UNCHANGED <<samplerVars, bankVars, labelled, laftr, loss>>

\* _get_splits(): the splits of the gen-th computation, n samples each
GetSplits(n, gen) ==
    [train |-> Dataset("train", n, gen), val |-> Dataset("val", n, gen),
     test |-> Dataset("test", n, gen)]

\* InstanceWeightedDataset(train_data)
InstanceWeightedDataset(d) == [d EXCEPT !.weighted = TRUE]

\* extract_base_dataset(dataset, return_subset_indices=False): the wrapper taken off
BaseOf(d) == [d EXCEPT !.weighted = FALSE]

\* the calls of a setup that may raise
SetupFailures ==
    {"", "_get_splits", "InstanceWeightedDataset",
     "train_data_base", "val_data_base", "test_data_base"}

Outcome(dm, raised) == [dm |-> dm, raised |-> raised]

\* _setup: fail names the call that raises, if any
SetupSplits(dm, n, fail) ==
    LET gen == dm.num_splits + 1
        splits == GetSplits(n, gen)
        called == [dm EXCEPT !.num_splits = gen]
        assigned == [called EXCEPT !.val_data = splits.val, !.test_data = splits.test]
    IN  IF fail = "_get_splits" THEN Outcome(called, "Exception")
        ELSE IF dm.instance_weighting
        THEN IF fail = "InstanceWeightedDataset" THEN Outcome(assigned, "Exception")
             ELSE Outcome([assigned EXCEPT
                              !.train_data = InstanceWeightedDataset(splits.train)], "")
        ELSE Outcome([assigned EXCEPT !.train_data = splits.train], "")

\* _post_setup: the three base datasets, assigned one after the other
PostSetup(dm, fail) ==
    LET one == [dm EXCEPT !.train_data_base = BaseOf(dm.train_data)]
        two == [one EXCEPT !.val_data_base = BaseOf(dm.val_data)]
        three == [two EXCEPT !.test_data_base = BaseOf(dm.test_data)]
    IN  IF fail = "train_data_base" THEN Outcome(dm, "Exception")
        ELSE IF fail = "val_data_base" THEN Outcome(one, "Exception")
        ELSE IF fail = "test_data_base" THEN Outcome(two, "Exception")
        ELSE Outcome(three, "")

\* a setup that computes the splits at every call
SetupUnconditional(dm, force_reset, n, fail) ==
    LET s == SetupSplits(dm, n, fail)
    IN  IF s.raised # "" THEN s ELSE PostSetup(s.dm, fail)

\* setup(stage, force_reset)
Setup(dm, force_reset, n, fail) ==
    IF force_reset \/ dm.train_data.is_none
    THEN LET s == SetupSplits(dm, n, fail)
         IN  IF s.raised # "" THEN s ELSE PostSetup(s.dm, fail)
    ELSE Outcome(dm, "")

\* the dataset attributes of the data module and the count of _get_splits calls
Fields(dm) ==
    [train_data |-> dm.train_data, val_data |-> dm.val_data, test_data |-> dm.test_data,
     train_data_base |-> dm.train_data_base, val_data_base |-> dm.val_data_base,
     test_data_base |-> dm.test_data_base, num_splits |-> dm.num_splits]

\* setup(force_reset): the splits are fetched once, or again when forced
setup(force_reset) ==
    /\ datamodule.num_splits < MaxSetups
    /\ \E n \in 0..MaxSamples, fail \in SetupFailures :
         LET out == Setup(datamodule, force_reset, n, fail)
         IN  datamodule' = [out.dm EXCEPT
                 !.ret = [op |-> "setup", force_reset |-> force_reset,
                          raised |-> out.raised, before |-> Fields(datamodule)]]
    /\ ModuleUnchanged

Accessors == {"train_data_base", "train_data", "val_data", "test_data"}

\* _check_setup_called(attr_), then return cast(Dataset, self._<attr_>)
Access(dm, attr) ==
    IF dm.train_data.is_none
    THEN [op |-> "access", attr |-> attr, raised |-> "AttributeError", value |-> NoData]
    ELSE [op |-> "access", attr |-> attr, raised |-> "", value |-> dm[attr]]

\* the properties train_data_base, train_data, val_data, test_data
access(attr) ==
    /\ datamodule' = [datamodule EXCEPT !.ret = Access(datamodule, attr)]
    /\ ModuleUnchanged

num_train_batches(drop_last) ==
    /\ datamodule' = [datamodule EXCEPT
           !.ret = NumTrainBatches(training_mode, datamodule.train_data,
                                   datamodule.train_batch_size, drop_last)]
    /\ ModuleUnchanged

ModuleInit ==
    /\ group_ids = <<0>>
    /\ training_mode \in {"epoch", "step"}
    /\ stratified_sampling = FALSE
    /\ sampler = [i \in Instances |-> NoSampler]
    /\ BankIdle
    /\ \E b \in 1..MaxBatchSize, iw \in BOOLEAN : datamodule = NewDataModule(b, iw)
    /\ labelled = [dataset |-> <<>>, ret |-> NoCall]
    /\ laftr = NewLAFTR(1)
    /\ loss = NewCrossEntropy(Member("mean"))

ModuleNext ==
    \/ \E force_reset \in BOOLEAN : setup(force_reset)
    \/ \E attr \in Accessors : access(attr)
    \/ \E drop_last \in BOOLEAN : num_train_batches(drop_last)

ModuleSpec == ModuleInit /\ [][ModuleNext]_vars


(***************************************************************************)
(* The data module and its training loader: the module is set up on the    *)
(* training data whose group ids are group_ids, and the loader is built    *)
(* with the module's own batch size.                                       *)
(***************************************************************************)
\* train_dataloader(drop_last=drop_last): batch_size is self.train_batch_size
train_dataloader_default(i, drop_last) ==
    /\ sampler[i].st = "none"
    /\ ~datamodule.train_data.is_none
    /\ LET b == datamodule.train_batch_size
           s == TrainBatchSampler(FALSE, drop_last, b)
       IN  sampler' = [sampler EXCEPT ![i] =
               [s EXCEPT !.args = [n |-> b, shuffle |-> FALSE,
                                   multipliers |-> DefaultMultipliers,
                                   drop_last |-> drop_last]]]
    /\ DataUnchanged

\* setup on the training data: the split has one sample per group id
setup_on_data ==
    /\ setup(FALSE)
    /\ datamodule'.ret.raised = ""
    /\ datamodule'.train_data.len = Len(group_ids)

LoaderInit ==
    /\ group_ids \in GroupIdVectors(MaxSamples)
    /\ training_mode = "epoch"
    /\ stratified_sampling \in BOOLEAN
    /\ sampler = [i \in Instances |-> NoSampler]
    /\ BankIdle
    /\ \E b \in 1..MaxBatchSize : datamodule = NewDataModule(b, FALSE)
    /\ labelled = [dataset |-> <<>>, ret |-> NoCall]
    /\ laftr = NewLAFTR(1)
    /\ loss = NewCrossEntropy(Member("mean"))

LoaderNext ==
    \/ setup_on_data
    \/ \E drop_last \in BOOLEAN : train_dataloader_default(1, drop_last)
    \/ \E drop_last \in BOOLEAN : num_train_batches(drop_last)
    \/ Iter(1)
    \/ NextBatch(1)
    \/ StopIteration(1)

LoaderSpec == LoaderInit /\ [][LoaderNext]_vars


(***************************************************************************)
(* Label extraction and group ids.  A dataset is a base dataset under a    *)
(* chain of Subsets (outermost first), or a ConcatDataset of such.  The    *)
(* attribute s or y of a base dataset is missing, None or a tensor.        *)
(***************************************************************************)
LabelValues == {0, 1}

NestingDepths == {0, 1, 2}

Absent(kind) == [has |-> kind, val |-> <<>>]

Tensor(v) == [has |-> "tensor", val |-> v]

LabelAttrs(n) ==
    {Absent("missing"), Absent("none")} \cup {Tensor(v) : v \in [1..n -> LabelValues]}

BaseDatasets(n) == {[len |-> n, s |-> s, y |-> y] : s \in LabelAttrs(n), y \in LabelAttrs(n)}

\* Subset(dataset, indices): the index lists over a dataset of n samples
IndexLists(n) ==
    {q \in SeqsUpTo(0..(n - 1), n) : \A a \in DOMAIN q, b \in DOMAIN q : a # b => q[a] # q[b]}

\* chains of Subset index lists over n samples, outermost first
RECURSIVE SubsetChains(_, _)
SubsetChains(n, depth) ==
    IF depth = 0 THEN {<<>>}
    ELSE {<<>>} \cup UNION {{Append(c, inner) : c \in SubsetChains(Len(inner), depth - 1)}
                            : inner \in IndexLists(n)}

Wrapped(n) ==
    {[base |-> b, subsets |-> c] : b \in BaseDatasets(n),
                                   c \in SubsetChains(n, SetMax(NestingDepths))}

\* the datasets handed to the functions: one dataset of up to max samples, or a
\* ConcatDataset of two
LabelledDatasets(max) ==
    {[concat |-> FALSE, datasets |-> <<d>>] : d \in UNION {Wrapped(n) : n \in 1..max}}
    \cup {[concat |-> TRUE, datasets |-> <<d1, d2>>] :
            d1 \in {w \in Wrapped(1) : w.subsets = <<>>},
            d2 \in {w \in Wrapped(1) : w.subsets = <<>>}}

\* Optional[Tensor]
None == [is_none |-> TRUE, val |-> <<>>]

Some(v) == [is_none |-> FALSE, val |-> v]

\* slice(None), or a tensor of absolute indices
SliceAll == [slice |-> TRUE, idx |-> <<>>]

Indices(idx) == [slice |-> FALSE, idx |-> idx]

\* x[idx] for a tensor x and 0-based indices idx
TensorIndex(x, idx) == [k \in DOMAIN idx |-> x[idx[k] + 1]]

\* x[indices]
GetItem(x, indices) == IF indices.slice THEN x ELSE TensorIndex(x, indices.idx)

\* rel_indices_ls[::-1]
Reversed(ls) == [k \in DOMAIN ls |-> ls[Len(ls) + 1 - k]]

\* for indices in rel_indices_ls[::-1]: abs_indices = abs_indices[indices]
RECURSIVE ComposeIndices(_, _)
ComposeIndices(abs_indices, ls) ==
    IF ls = <<>> THEN abs_indices
    ELSE ComposeIndices(TensorIndex(abs_indices, Head(ls)), Tail(ls))

\* the index list of the innermost Subset alone, composed with nothing
extract_base_dataset_innermost(dataset) ==
    LET rel_indices_ls == dataset.subsets
    IN  IF rel_indices_ls # <<>>
        THEN [dataset |-> dataset.base,
              indices |-> Indices(rel_indices_ls[Len(rel_indices_ls)])]
        ELSE [dataset |-> dataset.base, indices |-> SliceAll]

\* extract_base_dataset(dataset, return_subset_indices=True)
extract_base_dataset(dataset) ==
    LET rel_indices_ls == dataset.subsets
    IN  IF rel_indices_ls # <<>>
        THEN [dataset |-> dataset.base,
              indices |-> Indices(ComposeIndices(
                              rel_indices_ls[Len(rel_indices_ls)],
                              Reversed(SubSeq(rel_indices_ls, 1, Len(rel_indices_ls) - 1))))]
        ELSE [dataset |-> dataset.base, indices |-> SliceAll]

LabelsRaised(exc) == [raised |-> exc, s |-> None, y |-> None]

Labels(s, y) == [raised |-> "", s |-> s, y |-> y]

\* dataset.s[indices]: AttributeError without the attribute, TypeError on None
SubscriptS(base, indices) ==
    IF base.s.has = "missing" THEN LabelsRaised("AttributeError")
    ELSE IF base.s.has = "none" THEN LabelsRaised("TypeError")
    ELSE Labels(Some(GetItem(base.s.val, indices)), None)

\* _closure of extract_labels_from_dataset: both branches assign _s from dataset.s
Closure(dataset) ==
    LET b == extract_base_dataset(dataset)
        first == IF b.dataset.s.has = "tensor"
                 THEN Labels(Some(GetItem(b.dataset.s.val, b.indices)), None)
                 ELSE Labels(None, None)
    IN  IF b.dataset.y.has = "tensor"
        THEN SubscriptS(b.dataset, b.indices)
        ELSE first

\* torch.cat(ls, dim=0)
RECURSIVE Cat(_)
Cat(ls) == IF ls = <<>> THEN <<>> ELSE Head(ls) \o Cat(Tail(ls))

\* the loop over dataset.datasets: y, when there is one, is appended to s_all_ls
RECURSIVE ConcatLabels(_, _, _)
ConcatLabels(datasets, s_all_ls, y_all_ls) ==
    IF datasets = <<>>
    THEN Labels(IF s_all_ls # <<>> THEN Some(Cat(s_all_ls)) ELSE None,
                IF y_all_ls # <<>> THEN Some(Cat(y_all_ls)) ELSE None)
    ELSE LET r == Closure(Head(datasets))
             with_s == IF ~r.s.is_none THEN Append(s_all_ls, r.s.val) ELSE s_all_ls
             with_y == IF ~r.y.is_none THEN Append(with_s, r.y.val) ELSE with_s
         IN  IF r.raised # "" THEN r
             ELSE ConcatLabels(Tail(datasets), with_y, y_all_ls)

extract_labels_from_dataset(dataset) ==
    IF dataset.concat
    THEN ConcatLabels(dataset.datasets, <<>>, <<>>)
    ELSE Closure(dataset.datasets[1])

GroupIdsRaised(exc) == [op |-> "get_group_ids", raised |-> exc, value |-> <<>>]

GroupIds(v) == [op |-> "get_group_ids", raised |-> "", value |-> v]

\* (group_ids * len(s_all.unique()) + s_all).squeeze()
Combine(ids, s_all) ==
    [k \in DOMAIN s_all |-> ids[k] * Cardinality(Range(s_all)) + s_all[k]]

get_group_ids(dataset) ==
    LET r == extract_labels_from_dataset(dataset)
        ids == None
    IN  IF r.raised # "" THEN GroupIdsRaised(r.raised)
        ELSE IF r.s.is_none
        THEN IF r.y.is_none THEN GroupIdsRaised("ValueError") ELSE GroupIds(r.y.val)
        ELSE IF ids.is_none THEN GroupIds(r.s.val)
        ELSE GroupIds(Combine(ids.val, r.s.val))

LabelUnchanged == UNCHANGED <<samplerVars, bankVars, datamodule, laftr, loss>>

CallExtractLabels ==
    /\ labelled' = [labelled EXCEPT
           !.ret = [op |-> "extract_labels_from_dataset",
                    out |-> extract_labels_from_dataset(labelled.dataset)]]
    /\ LabelUnchanged

CallGetGroupIds ==
    /\ labelled' = [labelled EXCEPT !.ret = get_group_ids(labelled.dataset)]
    /\ LabelUnchanged

\* extract_base_dataset(dataset); a ConcatDataset has no attribute "dataset"
\* and is returned as it is
CallExtractBaseDataset ==
    /\ labelled' = [labelled EXCEPT
           !.ret = [op |-> "extract_base_dataset",
                    out |-> IF labelled.dataset.concat
                            THEN [dataset |-> labelled.dataset, indices |-> SliceAll]
                            ELSE extract_base_dataset(labelled.dataset.datasets[1])]]
    /\ LabelUnchanged

LabelInit ==
    /\ SamplerIdle
    /\ BankIdle
    /\ datamodule = NewDataModule(1, FALSE)
    /\ labelled \in {[dataset |-> d, ret |-> NoCall] : d \in LabelledDatasets(MaxLabels)}
    /\ laftr = NewLAFTR(1)
    /\ loss = NewCrossEntropy(Member("mean"))

LabelNext ==
    \/ CallExtractLabels
    \/ CallGetGroupIds
    \/ CallExtractBaseDataset

LabelSpec == LabelInit /\ [][LabelNext]_vars

\* extract_base_dataset on its own: a base dataset of up to MaxSamples samples
\* under up to three nested Subsets
SubsetDepths == {0, 1, 2, 3}

SubsetInit ==
    /\ SamplerIdle
    /\ BankIdle
    /\ datamodule = NewDataModule(1, FALSE)
    /\ \E n \in 1..MaxSamples : \E c \in SubsetChains(n, SetMax(SubsetDepths)) :
           labelled = [dataset |-> [concat |-> FALSE,
                                    datasets |-> <<[base |-> [len |-> n,
                                                              s |-> Absent("missing"),
                                                              y |-> Absent("missing")],
                                                    subsets |-> c]>>],
                       ret |-> NoCall]
    /\ laftr = NewLAFTR(1)
    /\ loss = NewCrossEntropy(Member("mean"))

SubsetNext == CallExtractBaseDataset

SubsetSpec == SubsetInit /\ [][SubsetNext]_vars


(***************************************************************************)
(* LAFTR: the alternating updates of a training run.  For every batch the  *)
(* loop runs training_step and optimizer_step for optimizer 0 (encoder,    *)
(* decoder, classifier), then for optimizer 1 (adversary).                 *)
(***************************************************************************)
\* LAFTR.set_requires_grad(nets, requires_grad) on the flags of the four nets
set_requires_grad(flags, nets, requires_grad) ==
    [net \in DOMAIN flags |-> IF net \in nets THEN requires_grad ELSE flags[net]]

\* the flags after training_step(optimizer_idx), and the exception raised
TrainingStep(flags, optimizer_idx) ==
    IF optimizer_idx = 0
    THEN [raised |-> "", requires_grad |-> set_requires_grad(flags, {"adv"}, FALSE)]
    ELSE IF optimizer_idx = 1
    THEN [raised |-> "",
          requires_grad |-> set_requires_grad(
                                set_requires_grad(flags, {"enc", "dec", "clf"}, FALSE),
                                {"adv"}, TRUE)]
    ELSE [raised |-> "RuntimeError", requires_grad |-> flags]

\* the main model's optimizer stepping on the batches whose index divides
OptimizerStepsFromZero(batch_idx, optimizer_idx, disc_steps) ==
    \/ optimizer_idx = 0 /\ batch_idx % disc_steps = 0
    \/ optimizer_idx = 1

\* whether optimizer_step calls optimizer.step
OptimizerSteps(batch_idx, optimizer_idx, disc_steps) ==
    \/ optimizer_idx = 0 /\ (batch_idx + 1) % disc_steps = 0
    \/ optimizer_idx = 1

LaftrUnchanged == UNCHANGED <<samplerVars, bankVars, datamodule, labelled, loss>>

\* training_step(batch, batch_idx, optimizer_idx) of the loop, or with a third
\* optimizer
laftr_training_step(optimizer_idx) ==
    /\ laftr.st = "training_step"
    /\ laftr.batch_idx < MaxRunBatches
    /\ optimizer_idx \in {laftr.optimizer_idx, 2}
    /\ LET out == TrainingStep(laftr.requires_grad, optimizer_idx)
       IN  laftr' = [laftr EXCEPT
               !.requires_grad = out.requires_grad,
               !.st = IF out.raised = "" THEN "optimizer_step" ELSE @,
               !.ret = [op |-> "training_step", batch_idx |-> laftr.batch_idx,
                        optimizer_idx |-> optimizer_idx, raised |-> out.raised,
                        requires_grad |-> out.requires_grad]]
    /\ LaftrUnchanged

\* optimizer_step(epoch, batch_idx, optimizer, optimizer_idx, ...) of the loop
optimizer_step ==
    /\ laftr.st = "optimizer_step"
    /\ LET stepped == OptimizerSteps(laftr.batch_idx, laftr.optimizer_idx, laftr.disc_steps)
       IN  laftr' = [laftr EXCEPT
               !.steps = IF stepped
                         THEN Append(@, <<laftr.batch_idx, laftr.optimizer_idx>>) ELSE @,
               !.batch_idx = IF laftr.optimizer_idx = 1 THEN @ + 1 ELSE @,
               !.optimizer_idx = 1 - @,
               !.st = "training_step",
               !.ret = [op |-> "optimizer_step", batch_idx |-> laftr.batch_idx,
                        optimizer_idx |-> laftr.optimizer_idx, stepped |-> stepped]]
    /\ LaftrUnchanged

LaftrInit ==
    /\ SamplerIdle
    /\ BankIdle
    /\ datamodule = NewDataModule(1, FALSE)
    /\ labelled = [dataset |-> <<>>, ret |-> NoCall]
    /\ laftr \in {NewLAFTR(disc_steps) : disc_steps \in 1..MaxDiscSteps}
    /\ loss = NewCrossEntropy(Member("mean"))

LaftrNext ==
    \/ \E optimizer_idx \in 0..2 : laftr_training_step(optimizer_idx)
    \/ optimizer_step

LaftrSpec == LaftrInit /\ [][LaftrNext]_vars


(***************************************************************************)
(* CrossEntropy.  F.cross_entropy(..., reduction="none") gives one loss    *)
(* per sample; forward weights them and reduces them.  The per-sample      *)
(* losses are the input here, as small integers; a scalar result is the    *)
(* fraction num / den.                                                     *)
(***************************************************************************)
MaxLossBatch == 2  \* samples in a batch handed to forward

Scalar(num, den) == [shape |-> "scalar", num |-> num, den |-> den, val |-> <<>>]

Vector(v) == [shape |-> "vector", num |-> 0, den |-> 1, val |-> v]

RECURSIVE SumSeq(_)
SumSeq(v) == IF v = <<>> THEN 0 ELSE Head(v) + SumSeq(Tail(v))

\* losses *= instance_weight.view(-1), when there is an instance_weight
Weighted(losses, instance_weight) ==
    IF instance_weight.is_none THEN losses
    ELSE [k \in DOMAIN losses |-> losses[k] * instance_weight.val[k]]

\* self.reduction == "mean": a member of a plain Enum is equal to no str
EqualsStr(reduction, s) == reduction.kind = "str" /\ reduction.name = s

\* CrossEntropy.forward after F.cross_entropy
Forward(self, losses, instance_weight) ==
    LET weighted == Weighted(losses, instance_weight)
    IN  IF EqualsStr(self.reduction, "mean")
        THEN Scalar(SumSeq(weighted), Len(weighted))
        ELSE IF EqualsStr(self.reduction, "none")
        THEN Vector(weighted)
        ELSE Scalar(SumSeq(weighted), 1)

LossUnchanged == UNCHANGED <<samplerVars, bankVars, datamodule, labelled, laftr>>

forward(losses, instance_weight) ==
    /\ loss' = [loss EXCEPT
           !.ret = [op |-> "forward", reduction |-> loss.reduction,
                    losses |-> losses, instance_weight |-> instance_weight,
                    out |-> Forward(loss, losses, instance_weight)]]
    /\ LossUnchanged

\* OnlineReweightingLoss(loss_fn): loss_fn.reduction = "none"
OnlineReweightingLoss ==
    /\ loss' = [loss EXCEPT !.reduction = Str("none")]
    /\ LossUnchanged

LossInit ==
    /\ SamplerIdle
    /\ BankIdle
    /\ datamodule = NewDataModule(1, FALSE)
    /\ labelled = [dataset |-> <<>>, ret |-> NoCall]
    /\ laftr = NewLAFTR(1)
    /\ \E reduction \in ReductionType \cup {Str(s) : s \in ReductionNames} :
           loss = NewCrossEntropy(reduction)

LossNext ==
    \/ \E n \in 1..MaxLossBatch :
           \E losses \in [1..n -> {1, 2}],
              instance_weight \in {None} \cup {Some(w) : w \in [1..n -> {1, 2}]} :
               forward(losses, instance_weight)
    \/ OnlineReweightingLoss

LossSpec == LossInit /\ [][LossNext]_vars


(***************************************************************************)
(* Properties of the stratified sampler.                                   *)
(***************************************************************************)
Yielded(s) == Stratified(s) /\ s.st \in {"iterating", "exhausted"} /\ s.yielded >= 1

\* how many entries of the batch belong to group g
InBatch(s, g) == Cardinality({k \in DOMAIN s.batch : group_ids[s.batch[k] + 1] = g})

\* C1: every batch the stratified sampler yields, in epoch mode and in step
\* mode, holds exactly num_samples_per_group * multiplier[g] indices of every
\* group g, and nothing that is not a sample index of some group.
BatchComposition ==
    \A i \in Instances :
        LET s == sampler[i]
        IN  Yielded(s) =>
              /\ \A k \in DOMAIN s.batch : s.batch[k] \in 0..(Len(group_ids) - 1)
              /\ \A g \in Groups :
                    InBatch(s, g) = s.num_samples_per_group * s.multipliers[g]
              /\ s.num_samples_per_group >= 1

\* a batch in which a group smaller than its quota has wrapped, with a
\* multiplier other than 1
BatchCompositionWitness ==
    LET s == sampler[1]
    IN  /\ Yielded(s)
        /\ s.yielded >= 2
        /\ \E g \in Groups :
              /\ s.multipliers[g] = 2
              /\ GroupSize(g) < Quota(s, g)
              /\ s.wraps[g] >= 2
        /\ \E g \in Groups : s.multipliers[g] = 1

\* n is the maximum over the groups of ceil(size / quota): every group is
\* covered by n batches, and some group is not covered by n - 1
IsMaxCeil(s, n) ==
    /\ \A g \in Groups : n * Quota(s, g) >= GroupSize(g)
    /\ \E g \in Groups : (n - 1) * Quota(s, g) < GroupSize(g)

\* C2: in epoch mode the length of the sampler is the maximum over the groups
\* of ceil(|group| / (multiplier * num_samples_per_group)), and an iteration
\* yields exactly that many batches before it stops.
EpochLengthIsMaxCeil ==
    \A i \in Instances :
        LET s == sampler[i]
        IN  (Stratified(s) /\ s.st \in {"ready", "iterating", "exhausted"}
                /\ s.mode = "epoch") =>
              /\ IsMaxCeil(s, s.epoch_len)
              /\ s.yielded <= s.epoch_len
              /\ s.st = "exhausted" => s.yielded = s.epoch_len
              /\ (s.st = "iterating" /\ s.yielded < s.epoch_len) =>
                    (Yields(s) /\ ~Stops(s))

\* an epoch of at least two batches has ended, a smaller group having wrapped
EpochLengthWitness ==
    LET s == sampler[1]
    IN  /\ s.kind = "SizedStratifiedSampler"
        /\ s.st = "exhausted"
        /\ s.epoch_len >= 2
        /\ s.yielded = s.epoch_len
        /\ \E g \in Groups : s.wraps[g] >= 1
        /\ \E g \in Groups : s.multipliers[g] = 2

\* C3: with training_mode step the sampler of train_dataloader never ends the
\* iteration: it is never exhausted, and a further batch can always be
\* yielded.
StepModeNeverEnds ==
    \A i \in Instances :
        LET s == sampler[i]
        IN  (training_mode = "step" /\ s.kind = "StratifiedBatchSampler"
                /\ s.st # "error") =>
              /\ s.st # "exhausted"
              /\ ~Stops(s)
              /\ s.st = "iterating" => Yields(s)

\* step mode, more batches yielded than the epoch would hold
StepModeWitness ==
    LET s == sampler[1]
    IN  /\ training_mode = "step"
        /\ s.kind = "StratifiedBatchSampler"
        /\ s.st = "iterating"
        /\ s.yielded = MaxBatches
        /\ s.yielded > EpochLength(s.num_samples_per_group, s.multipliers)
        /\ \A g \in Groups : s.wraps[g] >= 1

\* C4: within one pass of a group every index of the group is emitted once
\* and none twice, a completed pass having emitted every index exactly once;
\* the cursor and the number of wraps of a group are determined by the
\* group's own size and quota alone.
PassesWithoutRepetition ==
    \A i \in Instances :
        LET s == sampler[i]
        IN  (Stratified(s) /\ s.st \in {"iterating", "exhausted"}) =>
              \A g \in Groups :
                LET n == GroupSize(g)
                    t == s.yielded * Quota(s, g)
                IN  /\ \A k \in DOMAIN s.emitted[g] :
                          /\ s.emitted[g][k] \in Range(GroupIdxs(g))
                          /\ Count(s.emitted[g], s.emitted[g][k]) = 1
                    /\ s.wraps[g] >= 1 =>
                          /\ s.lastPass[g].len = n
                          /\ \A x \in Range(GroupIdxs(g)) : s.lastPass[g].count[x] = 1
                    /\ Len(s.emitted[g]) = s.cursor[g]
                    /\ s.cursor[g] = IF t = 0 THEN 0 ELSE ((t - 1) % n) + 1
                    /\ s.wraps[g] = IF t = 0 THEN 0 ELSE (t - 1) \div n

\* a one-sample group has wrapped on every batch while a larger group is
\* still in its first pass, under shuffling
PassesWitness ==
    LET s == sampler[1]
    IN  /\ Yielded(s)
        /\ s.shuffle
        /\ \E g \in Groups, h \in Groups :
              /\ GroupSize(g) = 1
              /\ s.wraps[g] >= 2
              /\ GroupSize(h) >= 2
              /\ s.wraps[h] = 0
              /\ s.cursor[h] >= 1

\* the call of the constructor was refused and nothing was yielded
Rejected(s) ==
    /\ s.st = "error"
    /\ s.error = "ConfigurationError"
    /\ s.yielded = 0
    /\ s.batch = <<>>

\* C6: the construction of the stratified sampler fails with a configuration
\* error, before any batch, when num_samples_per_group <= 0; so does
\* train_dataloader with stratified sampling when batch_size < num_groups.
ConstructionRejects ==
    \A i \in Instances :
        LET s == sampler[i]
        IN  /\ (s.kind = "SizedStratifiedSampler" /\ s.args.n <= 0) => Rejected(s)
            /\ (s.kind = "StratifiedBatchSampler" /\ s.args.n < num_groups) =>
                    Rejected(s)
            /\ s.st = "error" =>
                    (Rejected(s) /\ ~Yields(s))

\* train_dataloader was called with a batch size below the number of groups
ConstructionRejectsWitness ==
    LET s == sampler[1]
    IN  /\ s.kind = "StratifiedBatchSampler"
        /\ s.args.n >= 1
        /\ s.args.n < num_groups
        /\ s.st = "error"

\* C5: with shuffle=False two sampler instances built from identical inputs
\* yield the same batch at every position of the sequence, and every group's
\* pass restarts at index 0 of the group's list on wraparound.
Deterministic ==
    LET a == sampler[1]
        b == sampler[2]
    IN  (Stratified(a) /\ Stratified(b) /\ a.kind = b.kind /\ a.args = b.args
            /\ ~a.args.shuffle) =>
          /\ a.st = "error" <=> b.st = "error"
          /\ (a.st \in {"iterating", "exhausted"} /\ b.st \in {"iterating", "exhausted"}
                /\ a.yielded = b.yielded) =>
                (a.batch = b.batch /\ a.cursor = b.cursor)
          /\ \A i \in Instances : \A g \in Groups :
                sampler[i].st \in {"iterating", "exhausted"} =>
                    sampler[i].emitted[g] =
                        SubSeq(GroupIdxs(g), 1, sampler[i].cursor[g])

\* both instances have yielded their third batch, unshuffled, every group
\* having wrapped
DeterministicWitness ==
    LET a == sampler[1]
        b == sampler[2]
    IN  /\ Yielded(a) /\ Yielded(b)
        /\ ~a.args.shuffle /\ a.args = b.args
        /\ a.yielded = 3 /\ b.yielded = 3
        /\ \A g \in Groups : a.wraps[g] >= 1 /\ b.wraps[g] >= 1
        /\ num_groups = 2
        /\ a.batch = b.batch

\* C18: every batch the stratified sampler yields is the concatenation of the
\* groups' slices in ascending order of group id: every index of a lower
\* group id comes before every index of a higher group id
AscendingGroupOrder ==
    \A i \in Instances :
        LET s == sampler[i]
        IN  Yielded(s) =>
              \A a \in DOMAIN s.batch, b \in DOMAIN s.batch :
                  group_ids[s.batch[a] + 1] < group_ids[s.batch[b] + 1] => a < b

\* a batch of two groups in which the order by group differs from the order
\* by sample index, yielded after a wrap
AscendingGroupOrderWitness ==
    LET s == sampler[1]
    IN  /\ Yielded(s)
        /\ s.yielded >= 2
        /\ \E a \in DOMAIN s.batch, b \in DOMAIN s.batch :
              /\ a < b
              /\ s.batch[a] > s.batch[b]
              /\ group_ids[s.batch[a] + 1] < group_ids[s.batch[b] + 1]

\* C23: with stratified sampling, G groups and a requested batch size b >= G,
\* every training batch holds b // G indices of each group, (b // G) * G in
\* all, which is b reduced to a multiple of G and never more than b
StratifiedBatchSize ==
    \A i \in Instances :
        LET s == sampler[i]
            b == s.args.n
        IN  (Yielded(s) /\ s.kind = "StratifiedBatchSampler" /\ b >= num_groups) =>
              /\ stratified_sampling
              /\ Len(s.batch) = (b \div num_groups) * num_groups
              /\ \A g \in Groups : InBatch(s, g) = b \div num_groups
              /\ Len(s.batch) <= b
              /\ b - Len(s.batch) < num_groups

\* a second batch of a loader whose requested batch size is larger than the
\* number of groups and not a multiple of it
StratifiedBatchSizeWitness ==
    LET s == sampler[1]
    IN  /\ Yielded(s)
        /\ s.kind = "StratifiedBatchSampler"
        /\ s.yielded >= 2
        /\ num_groups >= 2
        /\ s.args.n > num_groups
        /\ s.args.n % num_groups # 0
        /\ Len(s.batch) < s.args.n

(***************************************************************************)
(* Properties of the memory bank.                                          *)
(***************************************************************************)
\* how many rows of the buffer mem hold the vector v
RowsHolding(mem, v) == Cardinality({r \in DOMAIN mem : mem[r] = v})

\* the rows a push of B rows at cursor p writes
Block(p, B, capacity) == {(p + k) % capacity : k \in 0..(B - 1)}

\* capacity / B batches of one size B, B dividing the capacity, have been
\* pushed since construction and nothing else
Filled ==
    /\ pushed.live
    /\ pushed.B >= 1
    /\ num_negatives % pushed.B = 0
    /\ Len(pushed.rows) = (num_negatives \div pushed.B) * pushed.B

\* C7: from ptr = 0, after capacity / B pushes of batches of B rows, the bank
\* holds exactly the rows pushed, each pushed row in one place and no initial
\* row left, read() returns them, and ptr is 0 again.
FilledBankHoldsPushes ==
    Filled =>
        /\ ptr = 0
        /\ Capacity(memory) = Len(pushed.rows)
        /\ \A v \in Range(pushed.rows) \cup {memory[r] : r \in DOMAIN memory} :
                RowsHolding(memory, v) = Count(pushed.rows, v)
        /\ lastOp.op = "read" =>
                \A v \in Range(pushed.rows) :
                    RowsHolding(negatives, v) = Count(pushed.rows, v)

\* two different batches of two rows have filled a bank of four rows, which
\* was then read
FilledBankWitness ==
    /\ Filled
    /\ num_negatives = 4
    /\ pushed.B = 2
    /\ SubSeq(pushed.rows, 1, 2) # SubSeq(pushed.rows, 3, 4)
    /\ pushed.rows[1] # pushed.rows[2]
    /\ lastOp.op = "read"

\* C8: the cursor of the bank is always in [0, capacity), and a push of B rows
\* moves it to (ptr + B) % capacity.
PtrAdvances ==
    /\ ptr \in 0..(Capacity(memory) - 1)
    /\ lastOp.op = "training_step" =>
          ptr = (lastOp.ptr + Len(lastOp.keys)) % Capacity(memory)

\* a gathered batch was pushed under DDP and the cursor wrapped past the end
PtrAdvancesWitness ==
    /\ lastOp.op = "training_step"
    /\ use_ddp
    /\ lastOp.ptr + Len(lastOp.keys) > Capacity(memory)
    /\ ptr >= 1
    /\ ptr < lastOp.ptr

\* C9: a push of B rows overwrites the B rows of its block with the batch and
\* leaves every other row as it was; the bank keeps its capacity and its
\* dimension; a read returns the buffer and leaves buffer and cursor alone.
PushFrame ==
    /\ DOMAIN memory = 0..(num_negatives - 1)
    /\ \A r \in DOMAIN memory : Len(memory[r]) = emb_dim
    /\ lastOp.op = "training_step" =>
          \A r \in DOMAIN memory :
              IF r \in Block(lastOp.ptr, Len(lastOp.keys), num_negatives)
              THEN memory[r] = lastOp.keys[((r - lastOp.ptr) % num_negatives) + 1]
              ELSE memory[r] = negatives[r]
    /\ lastOp.op = "read" => (negatives = memory /\ ptr = lastOp.ptr)

\* a push has changed a row of its block while rows outside the block exist
PushFrameWitness ==
    /\ lastOp.op = "training_step"
    /\ Len(lastOp.keys) = 2
    /\ num_negatives = 4
    /\ \E r \in Block(lastOp.ptr, 2, 4) : memory[r] # negatives[r]
    /\ \E r \in DOMAIN memory : r \notin Block(lastOp.ptr, 2, 4)

\* C10: a push of B rows at a cursor with ptr + B > capacity writes the first
\* capacity - ptr rows of the batch to [ptr, capacity), the others to
\* [0, B - (capacity - ptr)), and leaves the rows between the two segments.
SplitWrite ==
    LET B == Len(lastOp.keys)
        tail == num_negatives - lastOp.ptr
        head == B - tail
    IN  (lastOp.op = "training_step" /\ lastOp.ptr + B > num_negatives) =>
          /\ \A r \in lastOp.ptr..(num_negatives - 1) :
                memory[r] = lastOp.keys[r - lastOp.ptr + 1]
          /\ \A r \in 0..(head - 1) : memory[r] = lastOp.keys[tail + r + 1]
          /\ \A r \in head..(lastOp.ptr - 1) : memory[r] = negatives[r]

\* a batch of two rows was pushed at the last row of a bank of four: one row
\* went to the tail, one to the head, and two rows lie between
SplitWriteWitness ==
    /\ lastOp.op = "training_step"
    /\ num_negatives = 4
    /\ lastOp.ptr = 3
    /\ Len(lastOp.keys) = 2
    /\ lastOp.keys[1] # lastOp.keys[2]
    /\ memory[0] # negatives[0]
    /\ ptr = 1

\* C11: the batch size is checked against the capacity when the bank is built,
\* so every batch pushed on a constructed bank has a size B with
\* capacity % B = 0.
PushesDivideCapacity ==
    lastOp.op = "training_step" => num_negatives % Len(lastOp.keys) = 0

\* the squared L2 norm of the row v
RECURSIVE SumSquares(_)
SumSquares(v) == IF v = <<>> THEN 0 ELSE Head(v) * Head(v) + SumSquares(Tail(v))

\* every bank of the run: the first worker's and the other replicas'
Banks == {memory} \cup {replicas[w].memory : w \in DOMAIN replicas}

OnePushAfterNegatives ==
    lastOp.op = "training_step" =>
        /\ negatives = lastOp.mem
        /\ memory = Push(lastOp.mem, lastOp.ptr, lastOp.keys).memory
        /\ ptr = Push(lastOp.mem, lastOp.ptr, lastOp.keys).ptr

\* a second step has overwritten a row with a key that the negatives of the
\* step do not hold at that row
OnePushWitness ==
    /\ lastOp.op = "training_step"
    /\ pushed.live
    /\ Len(pushed.rows) > Len(lastOp.keys)
    /\ memory[lastOp.ptr] = lastOp.keys[1]
    /\ negatives[lastOp.ptr] # lastOp.keys[1]
    /\ negatives[0] = pushed.rows[1]


\* C25: if every push since construction (ptr = 0) has had the same size B and
\* capacity % B = 0, then before every push ptr is a multiple of B with
\* ptr + B <= capacity: no push straddles the end of the buffer, its block is
\* one segment, and the cursor it leaves is again a multiple of B
AlignedPushes ==
    (lastOp.op = "training_step" /\ pushed.all_B >= 1
        /\ num_negatives % pushed.all_B = 0)
        => LET B == pushed.all_B
           IN  /\ Len(lastOp.keys) = B
               /\ lastOp.ptr % B = 0
               /\ lastOp.ptr + B <= num_negatives
               /\ Block(lastOp.ptr, B, num_negatives) = lastOp.ptr..(lastOp.ptr + B - 1)
               /\ ptr % B = 0

\* batches of two rows on a bank of four rows: more rows have been pushed
\* than the bank holds, and the last push was at the second block
AlignedPushesWitness ==
    /\ lastOp.op = "training_step"
    /\ pushed.all_B = 2
    /\ num_negatives = 4
    /\ ~pushed.live
    /\ lastOp.ptr = 2
    /\ ptr = 0

(***************************************************************************)
(* Properties of the data module.                                          *)
(***************************************************************************)
\* C15: in step mode a request for the number of training batches raises an
\* attribute error, whatever drop_last is and whether or not setup has been
\* called, and returns no number
NumTrainBatchesStepRaises ==
    (datamodule.ret.op = "num_train_batches" /\ training_mode = "step")
        => /\ datamodule.ret.raised = "AttributeError"
           /\ datamodule.ret.value = -1

\* a step-mode module that has been set up on a non-empty split, asked with drop_last
NumTrainBatchesStepWitness ==
    /\ training_mode = "step"
    /\ ~datamodule.train_data.is_none
    /\ datamodule.train_data.len >= datamodule.train_batch_size
    /\ datamodule.ret.op = "num_train_batches"
    /\ datamodule.ret.drop_last
    /\ datamodule.ret.raised = "AttributeError"


\* C21: setup computes the splits only if that has not been done or
\* force_reset is given: a setup without force_reset on a module that holds
\* its training data leaves train, val and test data and their base datasets
\* as they were and fetches no splits, and a setup with force_reset fetches
\* the splits anew and, when it completes, holds the new ones throughout
SetupIdempotent ==
    datamodule.ret.op = "setup"
        => LET before == datamodule.ret.before
               now == Fields(datamodule)
               recomputes == datamodule.ret.force_reset \/ before.train_data.is_none
           IN  /\ ~recomputes => now = before
               /\ recomputes => now.num_splits = before.num_splits + 1
               /\ (recomputes /\ datamodule.ret.raised = "")
                     => \A f \in DOMAIN now \ {"num_splits"} :
                            ~now[f].is_none /\ now[f].gen = now.num_splits

\* a second setup without force_reset, on a module whose first setup wrapped
\* a non-empty training split for instance weighting
SetupIdempotentWitness ==
    /\ datamodule.ret.op = "setup"
    /\ ~datamodule.ret.force_reset
    /\ datamodule.ret.raised = ""
    /\ datamodule.ret.before.num_splits = 1
    /\ datamodule.num_splits = 1
    /\ datamodule.train_data.weighted
    /\ datamodule.train_data.len >= 1
    /\ ~datamodule.train_data_base.is_none

\* C22: after any sequence of setups, failed ones included, the accessors
\* train_data, val_data, test_data and train_data_base never return None:
\* they raise AttributeError or return a dataset that a setup assigned
AccessorsNeverNone ==
    datamodule.ret.op = "access"
        => \/ datamodule.ret.raised = "AttributeError"
           \/ /\ datamodule.ret.raised = ""
              /\ ~datamodule.ret.value.is_none
              /\ datamodule.ret.value.gen \in 1..datamodule.num_splits

\* C24: in epoch mode num_train_batches(drop_last) is the number of batches
\* that the loader of train_dataloader(drop_last=drop_last) yields in one epoch
NumTrainBatchesMatchesLoader ==
    LET s == sampler[1]
        r == datamodule.ret
    IN  (/\ s.st = "exhausted"
         /\ s.mode = "epoch"
         /\ r.op = "num_train_batches"
         /\ r.drop_last = s.args.drop_last)
            => r.raised = "" /\ r.value = s.yielded

(***************************************************************************)
(* Properties of the group ids.                                            *)
(***************************************************************************)
\* the number of samples of one dataset of a ConcatDataset, and of the dataset
PartLen(d) == IF d.subsets = <<>> THEN d.base.len ELSE Len(d.subsets[1])

\* the position in the base dataset of sample i (0-based), through the Subsets
RECURSIVE BasePos(_, _)
BasePos(subsets, i) ==
    IF subsets = <<>> THEN i ELSE BasePos(Tail(subsets), Head(subsets)[i + 1])

\* the labels of the samples of d, in the order of its samples
SampleLabels(d, attr) ==
    [i \in 1..PartLen(d) |-> attr.val[BasePos(d.subsets, i - 1) + 1]]

NumSamples(dataset) == Len(Cat([k \in DOMAIN dataset.datasets |->
                                   [i \in 1..PartLen(dataset.datasets[k]) |-> 0]]))

HasS(dataset) == \A k \in DOMAIN dataset.datasets : dataset.datasets[k].base.s.has = "tensor"

HasY(dataset) == \A k \in DOMAIN dataset.datasets : dataset.datasets[k].base.y.has = "tensor"

NoS(dataset) == \A k \in DOMAIN dataset.datasets : dataset.datasets[k].base.s.has # "tensor"

NoY(dataset) == \A k \in DOMAIN dataset.datasets : dataset.datasets[k].base.y.has # "tensor"

AllS(dataset) ==
    Cat([k \in DOMAIN dataset.datasets |->
            SampleLabels(dataset.datasets[k], dataset.datasets[k].base.s)])

AllY(dataset) ==
    Cat([k \in DOMAIN dataset.datasets |->
            SampleLabels(dataset.datasets[k], dataset.datasets[k].base.y)])

\* C16: for a dataset with both s and y, get_group_ids gives every sample a
\* non-negative integer, two samples get the same id if and only if they have
\* the same (s, y) pair, and there are as many distinct ids as distinct pairs
GroupIdsCombineSY ==
    (labelled.ret.op = "get_group_ids" /\ HasS(labelled.dataset) /\ HasY(labelled.dataset))
        => LET ids == labelled.ret.value
               s == AllS(labelled.dataset)
               y == AllY(labelled.dataset)
           IN  /\ labelled.ret.raised = ""
               /\ DOMAIN ids = DOMAIN s
               /\ \A i \in DOMAIN ids : ids[i] >= 0
               /\ \A i \in DOMAIN ids, j \in DOMAIN ids :
                      ids[i] = ids[j] <=> (s[i] = s[j] /\ y[i] = y[j])
               /\ Cardinality(Range(ids))
                      = Cardinality({<<s[i], y[i]>> : i \in DOMAIN s})

\* C17: get_group_ids returns one id per sample when the dataset has s or y
\* (the y labels when s is absent), raises ValueError exactly when it has
\* neither, and raises nothing else
GroupIdsTotal ==
    labelled.ret.op = "get_group_ids"
        => LET d == labelled.dataset
               r == labelled.ret
           IN  /\ (HasS(d) \/ HasY(d))
                      => r.raised = "" /\ Len(r.value) = NumSamples(d)
               /\ (NoS(d) /\ HasY(d)) => r.value = AllY(d)
               /\ (NoS(d) /\ NoY(d)) <=> r.raised = "ValueError"
               /\ r.raised \in {"", "ValueError"}

\* C27: for a dataset under any number of nested Subsets extract_base_dataset
\* returns the innermost base dataset and absolute indices abs with
\* wrapped[i] = base[abs[i]] for every position i of the wrapped dataset; with
\* no Subset it returns slice(None)
BaseAndAbsoluteIndices ==
    (labelled.ret.op = "extract_base_dataset" /\ ~labelled.dataset.concat)
        => LET d == labelled.dataset.datasets[1]
               out == labelled.ret.out
           IN  /\ out.dataset = d.base
               /\ d.subsets = <<>> => out.indices = SliceAll
               /\ d.subsets # <<>>
                    => /\ ~out.indices.slice
                       /\ Len(out.indices.idx) = PartLen(d)
                       /\ \A i \in 1..PartLen(d) :
                              out.indices.idx[i] = BasePos(d.subsets, i - 1)

\* three nested Subsets whose index lists do not commute
BaseAndAbsoluteIndicesWitness ==
    /\ labelled.ret.op = "extract_base_dataset"
    /\ labelled.dataset.datasets[1].subsets = <<<<1, 2, 0>>, <<1, 0, 2>>, <<2, 0, 1>>>>
    /\ labelled.ret.out.indices = Indices(<<2, 1, 0>>)

\* the s labels of the samples of the datasets that have s, None without any
OwnS(dataset) ==
    IF NoS(dataset) THEN None
    ELSE Some(Cat([k \in DOMAIN dataset.datasets |->
                      IF dataset.datasets[k].base.s.has = "tensor"
                      THEN SampleLabels(dataset.datasets[k], dataset.datasets[k].base.s)
                      ELSE <<>>]))

OwnY(dataset) ==
    IF NoY(dataset) THEN None
    ELSE Some(Cat([k \in DOMAIN dataset.datasets |->
                      IF dataset.datasets[k].base.y.has = "tensor"
                      THEN SampleLabels(dataset.datasets[k], dataset.datasets[k].base.y)
                      ELSE <<>>]))

\* C26: extract_labels_from_dataset returns (s, y): s is the base dataset's s
\* at the subset indices (None without s), y the base dataset's y at the same
\* indices (None without y); for a ConcatDataset s is the concatenation of the
\* s labels of its datasets only and y that of their y labels only, in order
ExtractLabelsOwnSY ==
    labelled.ret.op = "extract_labels_from_dataset"
        => /\ labelled.ret.out.raised = ""
           /\ labelled.ret.out.s = OwnS(labelled.dataset)
           /\ labelled.ret.out.y = OwnY(labelled.dataset)


(***************************************************************************)
(* Properties of LAFTR.                                                    *)
(***************************************************************************)
\* C19: whenever training_step runs as a main-model update the encoder,
\* decoder and classifier are trainable and the adversary is frozen, and
\* whenever it runs as an adversarial update the adversary is trainable and
\* the encoder, decoder and classifier are frozen, at every step of the run
UpdatesTrainTheirOwnNets ==
    (laftr.ret.op = "training_step" /\ laftr.ret.raised = "")
        => LET flags == laftr.ret.requires_grad
           IN  /\ laftr.ret.optimizer_idx = 0
                    => /\ flags["enc"] /\ flags["dec"] /\ flags["clf"]
                       /\ ~flags["adv"]
               /\ laftr.ret.optimizer_idx = 1
                    => /\ flags["adv"]
                       /\ ~flags["enc"] /\ ~flags["dec"] /\ ~flags["clf"]

\* how many times the log of steps holds the pair p
StepCount(p) == Cardinality({k \in DOMAIN laftr.steps : laftr.steps[k] = p})

\* C20: over the batches 0..N-1 of a run the adversary's optimizer steps once
\* on every batch and the main model's optimizer steps once on the batches
\* with (batch_idx + 1) % disc_steps = 0 and on no other, floor(N / disc_steps)
\* times in all
StepsEveryDiscSteps ==
    LET N == laftr.batch_idx
    IN  /\ \A b \in 0..(N - 1) :
              /\ StepCount(<<b, 1>>) = 1
              /\ StepCount(<<b, 0>>) = IF (b + 1) % laftr.disc_steps = 0 THEN 1 ELSE 0
        /\ Cardinality({k \in DOMAIN laftr.steps :
                          laftr.steps[k][2] = 0 /\ laftr.steps[k][1] < N})
               = N \div laftr.disc_steps

\* a run of four batches or more with disc_steps = 3: the main model stepped
\* on the third batch only
StepsEveryDiscStepsWitness ==
    /\ laftr.disc_steps = 3
    /\ laftr.batch_idx >= 4
    /\ StepCount(<<2, 0>>) = 1
    /\ StepCount(<<0, 0>>) = 0
    /\ StepCount(<<3, 0>>) = 0
    /\ StepCount(<<3, 1>>) = 1


(***************************************************************************)
(* Properties of CrossEntropy.                                             *)
(***************************************************************************)
\* C28: forward applies the configured reduction, given as a ReductionType
\* member or as a string: with mean it returns the mean of the per-sample
\* (instance-weighted) losses, with none the per-sample losses unreduced, and
\* with sum their sum
AppliesConfiguredReduction ==
    loss.ret.op = "forward"
        => LET w == Weighted(loss.ret.losses, loss.ret.instance_weight)
               out == loss.ret.out
           IN  /\ loss.ret.reduction.name = "mean"
                    => out.shape = "scalar" /\ out.num * Len(w) = SumSeq(w) * out.den
               /\ loss.ret.reduction.name = "none"
                    => out = Vector(w)
               /\ loss.ret.reduction.name = "sum"
                    => out.shape = "scalar" /\ out.num = SumSeq(w) * out.den

====
